---- MODULE Spec2Model ----
(***************************************************************************)
(* Model of lib/streamlit/elements/modal.py (class ModalMixin).            *)
(*                                                                         *)
(* The mixin has four public operations.  Each one forwards to an external *)
(* collaborator: the form helper module (build_form_id, current_form_id,   *)
(* FormData), the DeltaGenerator (_block, _button) and the script-run      *)
(* context (get_script_run_ctx, enqueue).  The collaborators are modelled  *)
(* by what the mixin hands to them and gets back from them:                *)
(*   dgs           the blocks created through dg._block, with the          *)
(*                 _form_data the mixin attaches to each;                  *)
(*   button_calls  the calls made to dg._button, with what each returned;  *)
(*   queue         the events enqueued on each script-run context;         *)
(*   modal_calls   the open_modal and close_modal calls that found a       *)
(*                 script-run context, per context, in call order;         *)
(*   script_run_ctx  what get_script_run_ctx() currently returns;          *)
(*   widget_values   the stored widget values (owned by the front end);    *)
(*   call, ret, delegated  the most recent call, its outcome, and the      *)
(*                 collaborator calls it made, in order.                   *)
(* A collaborator whose validation is not part of modal.py (build_form_id, *)
(* _block, _button) may return or raise; an exception propagates through   *)
(* the mixin, which has no try/except.                                     *)
(***************************************************************************)
EXTENDS Integers, Sequences, FiniteSets, TLC

VARIABLES dgs, button_calls, queue, modal_calls, script_run_ctx,
          widget_values, call, ret, delegated

vars == <<dgs, button_calls, queue, modal_calls, script_run_ctx,
          widget_values, call, ret, delegated>>

(* ---------------------------------------------------------------- bounds *)

\* The number of blocks, button calls and events a script makes in a run.
MaxCalls == 3

(* ---------------------------------------------------------------- values *)

\* Python's None: get_script_run_ctx() outside a script run, an absent
\* argument, the result of open_modal and close_modal.
None == "None"

\* The script-run contexts get_script_run_ctx() may return.
Ctxs == {"ctx1"}

\* The DeltaGenerator the mixin methods are called on: the root (0), or
\* the k-th block created (k in 1..Len(dgs)).
RootDg == 0

DgIds == {RootDg} \cup (1..Len(dgs))

\* The arguments of experimental_modal_form: clear_on_submit may be omitted.
ModalFormArgs ==
    { [key |-> "a"],
      [key |-> "a", clear_on_submit |-> TRUE],
      [key |-> "b"],
      [key |-> "b", clear_on_submit |-> FALSE] }

\* Two modals, each with its own key and clear_on_submit omitted.
ModalFormKeys == { [key |-> "a"], [key |-> "b"] }

\* The defaults of experimental_modal_form_submit_button's signature.
SubmitButtonDefaults ==
    [label |-> "Submit", help |-> None, on_click |-> None, args |-> None,
     kwargs |-> None, type |-> "secondary", disabled |-> FALSE,
     use_container_width |-> FALSE]

\* The keyword arguments a script passes to the submit button.
SubmitButtonKwargs ==
    { << >>,
      [label |-> "OK", help |-> "tip", on_click |-> "cta_callback",
       args |-> "args1", kwargs |-> "kwargs1", type |-> "primary",
       disabled |-> TRUE, use_container_width |-> TRUE],
      [label |-> "OK", type |-> "tertiary"],
      [type |-> "Primary", disabled |-> TRUE] }

\* A call with the defaults, and one with a type that is not allowed.
SubmitButtonTypes == { << >>, [type |-> "Primary"] }

\* A call's arguments with the signature's defaults filled in.
WithDefaults(defaults, kwargs) ==
    [f \in DOMAIN defaults |->
        IF f \in DOMAIN kwargs THEN kwargs[f] ELSE defaults[f]]

(* ------------------------------------------------- external collaborators *)

\* form.build_form_id(dg, key): the identifier of the form with this key.
build_form_id(dg, key) == "form_" \o key

\* form.FormData(form_id)
FormData(form_id) == [form_id |-> form_id]

\* form.current_form_id(dg): the form id of the _form_data attached to the
\* DeltaGenerator, the empty string when it has none.
current_form_id(dg) ==
    IF dg = RootDg THEN "" ELSE dgs[dg].form_data.form_id

\* create_update_open_modal_id_modal_event(open_modal_id=...)
create_update_open_modal_id_modal_event(open_modal_id) ==
    [type |-> "update_open_modal_id", open_modal_id |-> open_modal_id]

\* ctx.enqueue(event)
enqueue(ctx, event) == [queue EXCEPT ![ctx] = Append(@, event)]

\* The effects made so far, which MaxCalls bounds.
NumEffects == Len(dgs) + Len(button_calls) + Len(queue["ctx1"])

(* ------------------------------------------------------------------ Init *)

Init ==
    /\ dgs = << >>
    /\ button_calls = << >>
    /\ queue = [c \in Ctxs |-> << >>]
    /\ modal_calls = [c \in Ctxs |-> << >>]
    /\ script_run_ctx \in Ctxs \cup {None}
    /\ widget_values = [first_name |-> ""]
    /\ call = [op |-> "start"]
    /\ ret = [kind |-> "none"]
    /\ delegated = << >>

(* ------------------------------------------------ experimental_modal_form *)

\* default of the clear_on_submit parameter (line 32)
clear_on_submit_of(args) ==
    IF "clear_on_submit" \in DOMAIN args THEN args.clear_on_submit ELSE FALSE

\* build_modal_proto with the clear_on_submit assignment (line 102) left out:
\* the field keeps the protocol buffer's default.
build_modal_proto_no_clear(form_id, clear_on_submit) ==
    [modal |-> [form_id |-> form_id, clear_on_submit |-> FALSE]]

\* ModalMixin.build_modal_proto
build_modal_proto(form_id, clear_on_submit) ==
    [modal |-> [form_id |-> form_id, clear_on_submit |-> clear_on_submit]]

\* Lines 86-96: the form id, the block, the form data attached to it.
modal_form_block(dg, args) ==
    /\ NumEffects < MaxCalls
    /\ call' = [op |-> "experimental_modal_form", dg |-> dg, args |-> args]
    /\ \/ \* form.build_form_id raises
          /\ delegated' = <<"build_form_id">>
          /\ ret' = [kind |-> "raise", exc |-> "build_form_id"]
          /\ UNCHANGED dgs
       \/ \* dg._block raises
          /\ delegated' = <<"build_form_id", "_block">>
          /\ ret' = [kind |-> "raise", exc |-> "_block"]
          /\ UNCHANGED dgs
       \/ LET form_id == build_form_id(dg, args.key)
              block_proto == build_modal_proto(form_id, clear_on_submit_of(args))
              block_dg == [parent |-> dg, proto |-> block_proto,
                           form_data |-> FormData(form_id)]
          IN  /\ delegated' = <<"build_form_id", "_block", "FormData">>
              /\ dgs' = Append(dgs, block_dg)
              /\ ret' = [kind |-> "value", value |-> Len(dgs) + 1]

\* experimental_modal_form also opening the modal it declares.
experimental_modal_form_opening(dg, args) ==
    /\ modal_form_block(dg, args)
    /\ IF script_run_ctx # None /\ ret'.kind = "value"
       THEN queue' = enqueue(script_run_ctx,
                        create_update_open_modal_id_modal_event(
                            build_form_id(dg, args.key)))
       ELSE UNCHANGED queue
    /\ UNCHANGED <<button_calls, modal_calls, script_run_ctx, widget_values>>

\* ModalMixin.experimental_modal_form
experimental_modal_form(dg, args) ==
    /\ modal_form_block(dg, args)
    /\ UNCHANGED <<button_calls, queue, modal_calls, script_run_ctx,
                   widget_values>>

(* ---------------------------------- experimental_modal_form_submit_button *)

\* The type check made case-insensitive.
valid_type_any_case(type) ==
    type \in {"primary", "secondary", "Primary", "Secondary"}

\* the check of the button type (line 159)
valid_type(type) == type \in {"primary", "secondary"}

\* The key with the form id and the label swapped.
submit_button_key_swapped(form_id, label) ==
    "FormSubmitter:" \o label \o "-" \o form_id

\* the key of the submit button (line 191)
submit_button_key(form_id, label) == "FormSubmitter:" \o form_id \o "-" \o label

\* The keyword arguments ModalMixin._modal_form_submit_button passes to
\* dg._button (lines 190-204).
_modal_form_submit_button(dg, a, ctx) ==
    LET form_id == current_form_id(dg)
    IN  [label |-> a.label,
         key |-> submit_button_key(form_id, a.label),
         help |-> a.help,
         is_form_submitter |-> TRUE,
         on_click |-> a.on_click,
         args |-> a.args,
         kwargs |-> a.kwargs,
         type |-> a.type,
         disabled |-> a.disabled,
         use_container_width |-> a.use_container_width,
         ctx |-> ctx]

\* What the mixin returns of dg._button's outcome (the return statements
\* of lines 165 and 192).
submit_button_result(outcome) == outcome

\* ModalMixin.experimental_modal_form_submit_button
experimental_modal_form_submit_button(dg, kwargs) ==
    LET a == WithDefaults(SubmitButtonDefaults, kwargs)
        ctx == script_run_ctx
    IN  /\ NumEffects < MaxCalls
        /\ call' = [op |-> "experimental_modal_form_submit_button",
                    dg |-> dg, args |-> kwargs]
        /\ IF ~valid_type(a.type)
           THEN /\ delegated' = <<"get_script_run_ctx">>
                /\ ret' = [kind |-> "raise", exc |-> "StreamlitAPIException"]
                /\ UNCHANGED button_calls
           ELSE \E outcome \in {[kind |-> "value", value |-> TRUE],
                                [kind |-> "value", value |-> FALSE],
                                [kind |-> "raise", exc |-> "_button"]} :
                /\ delegated' = <<"get_script_run_ctx", "current_form_id", "_button">>
                /\ button_calls' =
                      Append(button_calls,
                             [dg |-> dg,
                              kwargs |-> _modal_form_submit_button(dg, a, ctx),
                              outcome |-> outcome])
                /\ ret' = submit_button_result(outcome)
        /\ UNCHANGED <<dgs, queue, modal_calls, script_run_ctx, widget_values>>

(* ------------------------------------------------ open_modal, close_modal *)

\* open_modal building close_modal's event.
open_modal_event_empty(dg) ==
    create_update_open_modal_id_modal_event("")

\* open_modal asking for the form id of the root DeltaGenerator instead
\* of self.dg.
open_modal_event_root(dg) ==
    create_update_open_modal_id_modal_event(current_form_id(RootDg))

\* the event open_modal builds (lines 211-213)
open_modal_event(dg) ==
    create_update_open_modal_id_modal_event(current_form_id(dg))

\* close_modal passing None instead of the empty string.
close_modal_event_none ==
    create_update_open_modal_id_modal_event(None)

\* the event close_modal builds (line 221)
close_modal_event ==
    create_update_open_modal_id_modal_event("")

\* ModalMixin.open_modal
open_modal(dg) ==
    LET ctx == script_run_ctx
    IN  /\ NumEffects < MaxCalls
        /\ call' = [op |-> "open_modal", dg |-> dg, ctx |-> ctx]
        /\ ret' = [kind |-> "value", value |-> None]
        /\ IF ctx # None
           THEN /\ delegated' = <<"get_script_run_ctx", "current_form_id",
                                  "create_update_open_modal_id_modal_event",
                                  "enqueue">>
                /\ queue' = enqueue(ctx, open_modal_event(dg))
                /\ modal_calls' =
                      [modal_calls EXCEPT
                          ![ctx] = Append(@, [op |-> "open_modal", dg |-> dg])]
           ELSE /\ delegated' = <<"get_script_run_ctx">>
                /\ UNCHANGED <<queue, modal_calls>>
        /\ UNCHANGED <<dgs, button_calls, script_run_ctx, widget_values>>

\* ModalMixin.close_modal
close_modal(dg) ==
    LET ctx == script_run_ctx
    IN  /\ NumEffects < MaxCalls
        /\ call' = [op |-> "close_modal", dg |-> dg, ctx |-> ctx]
        /\ ret' = [kind |-> "value", value |-> None]
        /\ IF ctx # None
           THEN /\ delegated' = <<"get_script_run_ctx",
                                  "create_update_open_modal_id_modal_event",
                                  "enqueue">>
                /\ queue' = enqueue(ctx, close_modal_event)
                /\ modal_calls' =
                      [modal_calls EXCEPT
                          ![ctx] = Append(@, [op |-> "close_modal"])]
           ELSE /\ delegated' = <<"get_script_run_ctx">>
                /\ UNCHANGED <<queue, modal_calls>>
        /\ UNCHANGED <<dgs, button_calls, script_run_ctx, widget_values>>

(* ---------------------------------------------------------- environment *)

\* The script-run context is dynamic: another script run starts, or none.
SetScriptRunCtx(c) ==
    /\ c # script_run_ctx
    /\ script_run_ctx' = c
    /\ call' = [op |-> "set_script_run_ctx"]
    /\ ret' = [kind |-> "none"]
    /\ delegated' = << >>
    /\ UNCHANGED <<dgs, button_calls, queue, modal_calls, widget_values>>

\* The front end commits a widget value (a form is submitted).
SetWidgetValue(v) ==
    /\ v # widget_values.first_name
    /\ widget_values' = [widget_values EXCEPT !.first_name = v]
    /\ call' = [op |-> "set_widget_value"]
    /\ ret' = [kind |-> "none"]
    /\ delegated' = << >>
    /\ UNCHANGED <<dgs, button_calls, queue, modal_calls, script_run_ctx>>

(* -------------------------------------------------------- specifications *)

\* A script that calls all four operations, while the script-run context
\* and the stored widget values change around it.
Next ==
    \/ \E dg \in DgIds, args \in ModalFormKeys : experimental_modal_form(dg, args)
    \/ \E dg \in DgIds, kwargs \in SubmitButtonTypes :
          experimental_modal_form_submit_button(dg, kwargs)
    \/ \E dg \in DgIds : open_modal(dg)
    \/ \E dg \in DgIds : close_modal(dg)
    \/ \E c \in Ctxs \cup {None} : SetScriptRunCtx(c)
    \/ \E v \in {"", "Ada"} : SetWidgetValue(v)

Spec == Init /\ [][Next]_vars

\* A script that only declares modal forms, with every form of arguments.
NextForm ==
    \E dg \in DgIds, args \in ModalFormArgs : experimental_modal_form(dg, args)

SpecForm == Init /\ [][NextForm]_vars

\* A script that declares modal forms and their submit buttons.
NextButton ==
    \/ \E dg \in DgIds, args \in ModalFormKeys : experimental_modal_form(dg, args)
    \/ \E dg \in DgIds, kwargs \in SubmitButtonKwargs :
          experimental_modal_form_submit_button(dg, kwargs)
    \/ \E c \in Ctxs \cup {None} : SetScriptRunCtx(c)

SpecButton == Init /\ [][NextButton]_vars

\* A script that declares modal forms, and opens and closes them.
NextModal ==
    \/ \E dg \in DgIds, args \in ModalFormKeys : experimental_modal_form(dg, args)
    \/ \E dg \in DgIds : open_modal(dg)
    \/ \E dg \in DgIds : close_modal(dg)
    \/ \E c \in Ctxs \cup {None} : SetScriptRunCtx(c)

SpecModal == Init /\ [][NextModal]_vars

(* ----------------------------------------------------------------- claims *)

\* The last element of a non-empty sequence.
Last(s) == s[Len(s)]

\* The elements of a sequence.
Range(s) == {s[i] : i \in 1..Len(s)}

\* The form id experimental_modal_form stored on a DeltaGenerator: that of
\* its _form_data, none on the root.
StoredFormId(dg) == IF dg = RootDg THEN "" ELSE dgs[dg].form_data.form_id

\* C1: when get_script_run_ctx() returns a context, open_modal called on a
\* block that experimental_modal_form returned appends exactly one event to
\* that context's queue, of type update_open_modal_id, whose open_modal_id is
\* the form id experimental_modal_form stored on that block.
C1_OpenModalEnqueuesFormId ==
    [][(/\ call'.op = "open_modal"
        /\ call'.dg # RootDg
        /\ call'.ctx # None)
       => queue' = [queue EXCEPT ![call'.ctx] =
                      Append(@, [type |-> "update_open_modal_id",
                                 open_modal_id |->
                                    dgs[call'.dg].form_data.form_id])]]_vars

\* C1's case: open_modal has been called, with a context, on the block of
\* the modal with key "b", after an event was already in the queue.
C1_Witness ==
    /\ call.op = "open_modal"
    /\ call.dg # RootDg
    /\ call.ctx # None
    /\ dgs[call.dg].proto.modal.form_id = build_form_id(RootDg, "b")
    /\ Len(queue[call.ctx]) = 2
    /\ Last(queue[call.ctx]).open_modal_id = "form_b"

\* C2: when get_script_run_ctx() returns a context, close_modal appends
\* exactly one event to that context's queue, whose open_modal_id is the
\* empty string, whatever DeltaGenerator it is called on and whatever the
\* queue held before.
C2_CloseModalEnqueuesEmptyId ==
    [][(call'.op = "close_modal" /\ call'.ctx # None)
       => queue' = [queue EXCEPT ![call'.ctx] =
                      Append(@, [type |-> "update_open_modal_id",
                                 open_modal_id |-> ""])]]_vars

\* C2's case: close_modal has been called on a modal's block, with a
\* context, and no modal was opened before.
C2_Witness ==
    /\ call.op = "close_modal"
    /\ call.dg # RootDg
    /\ call.ctx # None
    /\ Len(queue[call.ctx]) = 1
    /\ modal_calls[call.ctx][1].op = "close_modal"

\* C3: an experimental_modal_form(key, clear_on_submit) call that returns
\* has created exactly one block, under the DeltaGenerator it was called on;
\* the block's descriptor has modal.form_id = build_form_id(dg, key) and
\* modal.clear_on_submit = the argument (False when omitted); the call
\* returns that block, whose form data holds the descriptor's form id.
C3_ModalFormCreatesBlock ==
    [][(call'.op = "experimental_modal_form" /\ ret'.kind = "value")
       => /\ Len(dgs') = Len(dgs) + 1
          /\ SubSeq(dgs', 1, Len(dgs)) = dgs
          /\ ret'.value = Len(dgs')
          /\ LET block == dgs'[Len(dgs')]
                 args == call'.args
             IN  /\ block.parent = call'.dg
                 /\ block.proto.modal.form_id = build_form_id(call'.dg, args.key)
                 /\ block.proto.modal.clear_on_submit =
                       (IF "clear_on_submit" \in DOMAIN args
                        THEN args.clear_on_submit ELSE FALSE)
                 /\ block.form_data.form_id = block.proto.modal.form_id]_vars

\* C3's case: experimental_modal_form("a", clear_on_submit=True) has
\* returned a block, after a call with clear_on_submit omitted.
C3_Witness ==
    /\ call.op = "experimental_modal_form"
    /\ ret.kind = "value"
    /\ call.args = [key |-> "a", clear_on_submit |-> TRUE]
    /\ Len(dgs) = 2
    /\ dgs[1].proto.modal.clear_on_submit = FALSE
    /\ dgs[2].proto.modal.clear_on_submit = TRUE

\* C4: experimental_modal_form_submit_button with type "primary" or
\* "secondary" makes exactly one call to dg._button, with
\* is_form_submitter=True, key "FormSubmitter:<form_id>-<label>" for the
\* current form id of the DeltaGenerator it is called on, and label, help,
\* on_click, args, kwargs, type, disabled and use_container_width as given
\* (the signature's default when not given); its outcome is dg._button's:
\* the boolean it returns, or the exception it raises.
C4_SubmitButtonDelegates ==
    [][LET a == WithDefaults(SubmitButtonDefaults, call'.args)
       IN  (/\ call'.op = "experimental_modal_form_submit_button"
            /\ a.type \in {"primary", "secondary"})
           => /\ Len(button_calls') = Len(button_calls) + 1
              /\ SubSeq(button_calls', 1, Len(button_calls)) = button_calls
              /\ LET b == button_calls'[Len(button_calls')]
                 IN  /\ b.dg = call'.dg
                     /\ b.kwargs.is_form_submitter = TRUE
                     /\ b.kwargs.key =
                          "FormSubmitter:" \o StoredFormId(call'.dg)
                             \o "-" \o a.label
                     /\ b.kwargs.label = a.label
                     /\ b.kwargs.help = a.help
                     /\ b.kwargs.on_click = a.on_click
                     /\ b.kwargs.args = a.args
                     /\ b.kwargs.kwargs = a.kwargs
                     /\ b.kwargs.type = a.type
                     /\ b.kwargs.disabled = a.disabled
                     /\ b.kwargs.use_container_width = a.use_container_width
                     /\ ret' = b.outcome]_vars

\* C4's case: the submit button "OK" of the modal with key "a" has been
\* registered with every argument given, and reported a click.
C4_Witness ==
    /\ call.op = "experimental_modal_form_submit_button"
    /\ call.dg # RootDg
    /\ "on_click" \in DOMAIN call.args
    /\ ret = [kind |-> "value", value |-> TRUE]
    /\ Len(button_calls) = 1
    /\ button_calls[1].kwargs.key = "FormSubmitter:form_a-OK"
    /\ button_calls[1].kwargs.disabled = TRUE

\* C7: experimental_modal_form adds at most one block and leaves the button
\* calls, the event queue and the stored widget values as they are;
\* experimental_modal_form_submit_button adds at most one button call and
\* leaves the blocks, the queue and the widget values; open_modal and
\* close_modal add at most one event and leave the blocks, the button calls
\* and the widget values.
C7_OperationsTouchOwnCollaborator ==
    [][/\ call'.op = "experimental_modal_form"
          => /\ Len(dgs') \in {Len(dgs), Len(dgs) + 1}
             /\ SubSeq(dgs', 1, Len(dgs)) = dgs
             /\ ret'.kind = "value" => Len(dgs') = Len(dgs) + 1
             /\ button_calls' = button_calls
             /\ queue' = queue
             /\ widget_values' = widget_values
       /\ call'.op = "experimental_modal_form_submit_button"
          => /\ Len(button_calls') \in {Len(button_calls), Len(button_calls) + 1}
             /\ SubSeq(button_calls', 1, Len(button_calls)) = button_calls
             /\ dgs' = dgs
             /\ queue' = queue
             /\ widget_values' = widget_values
       /\ call'.op \in {"open_modal", "close_modal"}
          => /\ \A c \in Ctxs :
                  /\ Len(queue'[c]) \in {Len(queue[c]), Len(queue[c]) + 1}
                  /\ SubSeq(queue'[c], 1, Len(queue[c])) = queue[c]
             /\ dgs' = dgs
             /\ button_calls' = button_calls
             /\ widget_values' = widget_values]_vars

\* C7's case: a widget value is stored, a modal form was declared, its
\* submit button was registered, and close_modal has just enqueued an event.
C7_Witness ==
    /\ call.op = "close_modal"
    /\ call.ctx # None
    /\ widget_values.first_name = "Ada"
    /\ Len(dgs) = 1
    /\ Len(button_calls) = 1
    /\ button_calls[1].dg = 1
    /\ Len(queue[call.ctx]) = 1

\* C8: experimental_modal_form_submit_button with a type other than
\* "primary" or "secondary" raises StreamlitAPIException having called
\* neither form.current_form_id nor dg._button; the button calls, the
\* blocks and the event queue are as before.
C8_InvalidTypeRaisesBeforeDelegation ==
    [][LET a == WithDefaults(SubmitButtonDefaults, call'.args)
       IN  (/\ call'.op = "experimental_modal_form_submit_button"
            /\ a.type \notin {"primary", "secondary"})
           => /\ ret' = [kind |-> "raise", exc |-> "StreamlitAPIException"]
              /\ "current_form_id" \notin Range(delegated')
              /\ "_button" \notin Range(delegated')
              /\ button_calls' = button_calls
              /\ dgs' = dgs
              /\ queue' = queue]_vars

\* C8's case: the submit button was called with type "Primary" inside a
\* modal, with an event in the queue, and StreamlitAPIException was raised.
C8_Witness ==
    /\ call.op = "experimental_modal_form_submit_button"
    /\ call.dg # RootDg
    /\ call.args = [type |-> "Primary"]
    /\ ret.kind = "raise"
    /\ ret.exc = "StreamlitAPIException"
    /\ Len(queue["ctx1"]) = 1

\* The modal the most recent event of a context's queue designates open:
\* the empty string for none.
DesignatedOpen(c) ==
    IF queue[c] = << >> THEN "" ELSE Last(queue[c]).open_modal_id

\* C9: a context's queue holds one event per open_modal or close_modal call
\* made with that context, in call order: the form id of the
\* DeltaGenerator for an open_modal, the empty string for a close_modal.
\* So the modal the most recent event designates is the form id of the last
\* open_modal call when no close_modal followed it, and none otherwise.
C9_QueueFollowsCalls ==
    \A c \in Ctxs :
        /\ Len(queue[c]) = Len(modal_calls[c])
        /\ \A i \in 1..Len(modal_calls[c]) :
              /\ queue[c][i].type = "update_open_modal_id"
              /\ queue[c][i].open_modal_id =
                    (IF modal_calls[c][i].op = "open_modal"
                     THEN StoredFormId(modal_calls[c][i].dg)
                     ELSE "")
        /\ modal_calls[c] # << >>
              => DesignatedOpen(c) =
                    (IF Last(modal_calls[c]).op = "open_modal"
                     THEN StoredFormId(Last(modal_calls[c]).dg)
                     ELSE "")

\* C9's case: the modal with key "b" was opened and then close_modal was
\* called: the queue holds the two events and designates no modal.
C9_Witness ==
    \E c \in Ctxs :
        /\ Len(modal_calls[c]) = 2
        /\ modal_calls[c][1].op = "open_modal"
        /\ modal_calls[c][1].dg # RootDg
        /\ modal_calls[c][2].op = "close_modal"
        /\ queue[c][1].open_modal_id = "form_b"
        /\ DesignatedOpen(c) = ""

====
